---- MODULE Spec2Model ----
(***************************************************************************)
(* Model of script.js, the currency converter: the catalog loader          *)
(* (getCurrencies), the conversion workflow (convertCurrency), the swap    *)
(* handler (swapCurrencies) and the two display helpers.                   *)
(*                                                                         *)
(* A JavaScript string is a sequence of pieces whose concatenation is the  *)
(* string: one-character pieces for what the program parses, prints or     *)
(* sorts (the amount, the currency codes, the digits of a number), so that *)
(* parseFloat, toFixed, the template literals and Array.prototype.sort     *)
(* are computed and not assumed, and whole pieces for the literal text of  *)
(* the program and the names the service supplies.  A JavaScript number    *)
(* is a record:                                                            *)
(*   [k |-> "nan"], [k |-> "inf", neg |-> b] or                            *)
(*   [k |-> "fin", neg |-> b, n |-> mantissa, d |-> decimal places],       *)
(* the finite value being (-1)^neg * n / 10^d.                             *)
(***************************************************************************)
EXTENDS Integers, Sequences, FiniteSets, Bags, TLC

\* ------------------------------------------------------------------------
\* Bounds of the model
\* ------------------------------------------------------------------------

\* Largest number of conversion attempts suspended on the network at once.
MaxInFlight == 2

\* ------------------------------------------------------------------------
\* Strings
\* ------------------------------------------------------------------------

Digits == <<"0", "1", "2", "3", "4", "5", "6", "7", "8", "9">>

Letters ==
  <<"A", "B", "C", "D", "E", "F", "G", "H", "I", "J", "K", "L", "M",
    "N", "O", "P", "Q", "R", "S", "T", "U", "V", "W", "X", "Y", "Z">>

IsDigit(c) == \E i \in 1..10 : Digits[i] = c

DigitVal(c) == (CHOOSE i \in 1..10 : Digits[i] = c) - 1

IsLetter(c) == \E i \in 1..26 : Letters[i] = c

CodeUnit(c) == CHOOSE i \in 1..26 : Letters[i] = c

RECURSIVE Pow10(_)
Pow10(e) == IF e = 0 THEN 1 ELSE 10 * Pow10(e - 1)

Drop(s, k) == SubSeq(s, k + 1, Len(s))

StartsWith(s, p) == Len(s) >= Len(p) /\ SubSeq(s, 1, Len(p)) = p

\* Number of leading characters of s that are decimal digits.
RECURSIVE DigitPrefixLen(_)
DigitPrefixLen(s) ==
  IF s # <<>> /\ IsDigit(Head(s)) THEN 1 + DigitPrefixLen(Tail(s)) ELSE 0

\* Value of a sequence of decimal digits; the empty sequence is 0.
RECURSIVE DigitsValue(_)
DigitsValue(s) ==
  IF s = <<>> THEN 0
  ELSE 10 * DigitsValue(SubSeq(s, 1, Len(s) - 1)) + DigitVal(s[Len(s)])

\* Decimal digits of a natural number, without leading zeros.
RECURSIVE NatToString(_)
NatToString(n) ==
  IF n < 10 THEN <<Digits[n + 1]>>
  ELSE NatToString(n \div 10) \o <<Digits[(n % 10) + 1]>>

\* The digits of n, left-padded with zeros to w characters.
RECURSIVE PadZeros(_, _)
PadZeros(s, w) == IF Len(s) >= w THEN s ELSE PadZeros(<<"0">> \o s, w)

\* String.prototype.trimStart restricted to the space character.
RECURSIVE TrimStart(_)
TrimStart(s) ==
  IF s # <<>> /\ Head(s) = " " THEN TrimStart(Tail(s)) ELSE s

\* ------------------------------------------------------------------------
\* Numbers
\* ------------------------------------------------------------------------

NaN == [k |-> "nan"]

Infinity(neg) == [k |-> "inf", neg |-> neg]

\* A finite number, with trailing zero decimals removed.
RECURSIVE Finite(_, _, _)
Finite(neg, n, d) ==
  IF d > 0 /\ n % 10 = 0 THEN Finite(neg, n \div 10, d - 1)
  ELSE [k |-> "fin", neg |-> neg, n |-> n, d |-> d]

\* Largest decimal exponent of a finite double (Number.MAX_VALUE ~ 1.8e308).
MaxDecimalExponent == 308

isNaN(x) == x.k = "nan"

IsFinite(x) == x.k = "fin"

\* x <= 0 as JavaScript evaluates it: false for NaN, true for -0 and 0.
LessOrEqualZero(x) ==
  CASE x.k = "nan" -> FALSE
    [] x.k = "inf" -> x.neg
    [] OTHER -> x.neg \/ x.n = 0

\* x > 0 as JavaScript evaluates it.
GreaterThanZero(x) ==
  CASE x.k = "nan" -> FALSE
    [] x.k = "inf" -> ~x.neg
    [] OTHER -> ~x.neg /\ x.n > 0

\* The value of a property that an object does not have.
Undefined == [k |-> "undefined"]

\* ToBoolean of a number or undefined: 0, -0, NaN and undefined are falsy.
Truthy(x) ==
  CASE x.k = "nan" -> FALSE
    [] x.k = "inf" -> TRUE
    [] x.k = "undefined" -> FALSE
    [] OTHER -> x.n # 0

\* a * b; undefined converts to NaN, and infinity times zero is NaN.
Multiply(a, b) ==
  CASE a.k \in {"nan", "undefined"} \/ b.k \in {"nan", "undefined"} -> NaN
    [] a.k = "inf" /\ b.k = "inf" -> Infinity(a.neg # b.neg)
    [] a.k = "inf" -> IF b.n = 0 THEN NaN ELSE Infinity(a.neg # b.neg)
    [] b.k = "inf" -> IF a.n = 0 THEN NaN ELSE Infinity(a.neg # b.neg)
    [] OTHER -> Finite(a.neg # b.neg, a.n * b.n, a.d + b.d)

InfinityLiteral == <<"I", "n", "f", "i", "n", "i", "t", "y">>

\* The exponent part of a StrDecimalLiteral at the head of s:
\* [len |-> characters consumed, neg |-> sign, val |-> value]; len 0 if none.
ExponentPart(s) ==
  IF s = <<>> \/ Head(s) \notin {"e", "E"} THEN [len |-> 0, neg |-> FALSE, val |-> 0]
  ELSE LET r    == Tail(s)
           sgn  == r # <<>> /\ Head(r) \in {"+", "-"}
           ds   == IF sgn THEN Tail(r) ELSE r
           dl   == DigitPrefixLen(ds)
       IN  IF dl = 0 THEN [len |-> 0, neg |-> FALSE, val |-> 0]
           ELSE [len |-> 1 + (IF sgn THEN 1 ELSE 0) + dl,
                 neg |-> sgn /\ Head(r) = "-",
                 val |-> DigitsValue(SubSeq(ds, 1, dl))]

\* parseFloat: leading white space is skipped, the longest prefix that is a
\* StrDecimalLiteral is converted, and NaN is returned when there is none.
parseFloat(str) ==
  LET t     == TrimStart(str)
      sgn   == t # <<>> /\ Head(t) \in {"+", "-"}
      neg   == sgn /\ Head(t) = "-"
      u     == IF sgn THEN Tail(t) ELSE t
      il    == DigitPrefixLen(u)
      r1    == Drop(u, il)
      dot   == r1 # <<>> /\ Head(r1) = "."
      fl    == IF dot THEN DigitPrefixLen(Tail(r1)) ELSE 0
      r2    == IF dot THEN Drop(r1, 1 + fl) ELSE r1
      ex    == ExponentPart(r2)
      mant  == DigitsValue(SubSeq(u, 1, il) \o (IF dot THEN SubSeq(Tail(r1), 1, fl) ELSE <<>>))
      mlen  == Len(NatToString(mant))
  IN  IF StartsWith(u, InfinityLiteral) THEN Infinity(neg)
      ELSE IF il = 0 /\ fl = 0 THEN NaN
      ELSE IF mant = 0 THEN Finite(neg, 0, 0)
      ELSE IF ex.neg THEN Finite(neg, mant, fl + ex.val)
      ELSE IF mlen - fl + ex.val - 1 > MaxDecimalExponent THEN Infinity(neg)
      ELSE IF ex.val >= fl THEN Finite(neg, mant * Pow10(ex.val - fl), 0)
      ELSE Finite(neg, mant, fl - ex.val)

\* Number.prototype.toFixed(digits): the value rounded to `digits` decimals,
\* the larger candidate on a tie; NaN and the infinities print their names.
toFixed(x, digits) ==
  CASE x.k = "nan" -> <<"N", "a", "N">>
    [] x.k = "inf" -> (IF x.neg THEN <<"-">> ELSE <<>>) \o InfinityLiteral
    [] OTHER ->
         LET q == IF x.d <= digits THEN x.n * Pow10(digits - x.d)
                  ELSE (x.n + (Pow10(x.d - digits) \div 2)) \div Pow10(x.d - digits)
             ip == NatToString(q \div Pow10(digits))
             fp == IF digits = 0 THEN <<>>
                   ELSE <<".">> \o PadZeros(NatToString(q % Pow10(digits)), digits)
         IN  (IF x.neg /\ q # 0 THEN <<"-">> ELSE <<>>) \o ip \o fp


\* ------------------------------------------------------------------------
\* Text of the program
\* ------------------------------------------------------------------------

USD == <<"U", "S", "D">>

EUR == <<"E", "U", "R">>

JPY == <<"J", "P", "Y">>

ValidationMessage == <<"Please enter a valid amount greater than zero.">>

ConversionFailedMessage ==
  <<"Conversion failed. Please try again or check the API status.">>

CatalogFailedMessage ==
  <<"Could not load currency list. Check your network or API status.">>

\* `${amount.toFixed(2)} ${from} is equal to ${amount.toFixed(2)} ${to}.`
EqualMessage(amount, from, to) ==
  toFixed(amount, 2) \o <<" ">> \o from \o <<" is equal to ">>
    \o toFixed(amount, 2) \o <<" ">> \o to \o <<".">>

\* `${amount.toFixed(2)} ${from} is approximately ${formattedResult}`
ApproximatelyMessage(amount, from, formattedResult) ==
  toFixed(amount, 2) \o <<" ">> \o from \o <<" is approximately ">>
    \o formattedResult

\* `${code} - ${data[code]}`
OptionText(code, name) == code \o <<" - ">> \o name

\* `${API_URL}/latest?from=${from}&to=${to}`
RateUrl(from, to) ==
  <<"https://api.frankfurter.dev", "/latest?from=">> \o from \o <<"&to=">> \o to

\* ------------------------------------------------------------------------
\* Intl.NumberFormat(undefined, {style: 'currency', currency})
\* ------------------------------------------------------------------------

\* The constructor throws a RangeError unless the code is three letters.
IsWellFormedCurrencyCode(code) ==
  Len(code) = 3 /\ \A i \in 1..3 : IsLetter(code[i])

\* Minor-unit digits of a currency (ISO 4217): none for the yen.
CurrencyDigits(code) == IF code = JPY THEN 0 ELSE 2

\* The formatted amount in a locale that prints the code before the number.
FormatCurrency(x, code) ==
  code \o <<" ">> \o
    (CASE x.k = "nan" -> <<"N", "a", "N">>
       [] x.k = "inf" -> (IF x.neg THEN <<"-">> ELSE <<>>) \o <<"(infinity sign)">>
       [] OTHER -> toFixed(x, CurrencyDigits(code)))

\* ------------------------------------------------------------------------
\* Array.prototype.sort() on currency codes (order of UTF-16 code units)
\* ------------------------------------------------------------------------

RECURSIVE StringLess(_, _)
StringLess(a, b) ==
  IF b = <<>> THEN FALSE
  ELSE IF a = <<>> THEN TRUE
  ELSE IF Head(a) = Head(b) THEN StringLess(Tail(a), Tail(b))
  ELSE CodeUnit(Head(a)) < CodeUnit(Head(b))

RECURSIVE InsertSorted(_, _)
InsertSorted(x, s) ==
  IF s = <<>> THEN <<x>>
  ELSE IF StringLess(x, Head(s)) THEN <<x>> \o s
  ELSE <<Head(s)>> \o InsertSorted(x, Tail(s))

RECURSIVE Sort(_)
Sort(s) == IF s = <<>> THEN <<>> ELSE InsertSorted(Head(s), Sort(Tail(s)))

\* ------------------------------------------------------------------------
\* The <select> elements
\* ------------------------------------------------------------------------

\* select.value: the value of the selected option, "" when none is selected.
Value(select) ==
  IF select.selectedIndex = 0 THEN <<>>
  ELSE select.options[select.selectedIndex].value

\* select.value = v, were the first option selected when no option has the
\* value v.
SetValue_FirstWhenAbsent(select, v) ==
  LET hits == {i \in 1..Len(select.options) : select.options[i].value = v}
  IN  [select EXCEPT !.selectedIndex =
         IF hits = {} THEN (IF select.options = <<>> THEN 0 ELSE 1)
         ELSE CHOOSE i \in hits : \A j \in hits : i <= j]

\* select.value = v: selects the first option whose value is v, or none.
SetValue(select, v) ==
  LET hits == {i \in 1..Len(select.options) : select.options[i].value = v}
  IN  [select EXCEPT !.selectedIndex =
         IF hits = {} THEN 0 ELSE CHOOSE i \in hits : \A j \in hits : i <= j]

\* select.appendChild(option): a drop-down with no selected option selects
\* its first option when one is inserted.
AppendChild(select, option) ==
  [options |-> Append(select.options, option),
   selectedIndex |-> IF select.selectedIndex = 0 THEN 1 ELSE select.selectedIndex]


\* ------------------------------------------------------------------------
\* Inputs: what the user may type and what the service may answer
\* ------------------------------------------------------------------------

\* Texts the user may leave in the amount field.
AmountTexts ==
  { <<"a", "b", "c">>,
    <<"-", "5">>,
    <<"0">>,
    <<"1", "0", "0">>,
    <<"1", "e", "9", "9", "9">> }

\* Objects GET /currencies may return: code and display name, in the order
\* of the JSON object's keys.
Catalogs ==
  { << <<USD, <<"United States Dollar">>>>, <<EUR, <<"Euro">>>> >>,
    << <<EUR, <<"Euro">>>> >>,
    << <<USD, <<"United States Dollar">>>> >> }

\* Bodies of GET /currencies: not JSON at all, or one of the catalogs.
CatalogBodies ==
  { [kind |-> "invalid"] } \cup { [kind |-> "data", data |-> d] : d \in Catalogs }

\* Bodies of GET /latest: not JSON at all, an object without a rates
\* field, or an object whose rates field has no entry or one entry (key
\* and rate); the empty key is the target of an attempt with no selection.
RateBodies ==
  { [kind |-> "invalid"], [kind |-> "norates"],
    [kind |-> "rates", key |-> <<>>, rate |-> Undefined],
    [kind |-> "rates", key |-> USD, rate |-> Finite(FALSE, 0, 0)],
    [kind |-> "rates", key |-> USD, rate |-> Finite(FALSE, 9, 1)],
    [kind |-> "rates", key |-> EUR, rate |-> Finite(FALSE, 9, 1)],
    [kind |-> "rates", key |-> <<>>, rate |-> Finite(FALSE, 9, 1)] }

\* data.rates[to] of a body of kind "rates".
RateOf(body, to) ==
  IF body.rate.k # "undefined" /\ body.key = to THEN body.rate ELSE Undefined

\* ------------------------------------------------------------------------
\* State
\* ------------------------------------------------------------------------

VARIABLES
  amountInput,         \* [value]: the text of the amount field
  fromCurrencySelect,  \* [options, selectedIndex]
  toCurrencySelect,    \* [options, selectedIndex]
  convertButton,       \* [disabled]
  resultMessage,       \* [textContent, display]
  errorMessage,        \* [textContent, display]
  loader,              \* where getCurrencies() is: "fetch", "json" or "done"
  pending,             \* bag of the convertCurrency() calls suspended on an await
  ev,                  \* history: the handler or continuation that ran last
  hist                 \* history of attempts, kept by the specifications that need one

vars ==
  <<amountInput, fromCurrencySelect, toCurrencySelect, convertButton,
    resultMessage, errorMessage, loader, pending, ev, hist>>

\* The three elements that displayError and displayResult write.
UI == [resultMessage |-> resultMessage, errorMessage |-> errorMessage,
       convertButton |-> convertButton]

SetUI(ui) ==
  /\ resultMessage' = ui.resultMessage
  /\ errorMessage' = ui.errorMessage
  /\ convertButton' = ui.convertButton

\* How a network request settled: what fetch did and the body read.
Settled(outcome, body) == [outcome |-> outcome, body |-> body]

NoResponse == Settled("none", [kind |-> "none"])

\* The history record of a step: which operation ran; for a call of
\* convertCurrency what it read, whether it issued a rate request and on
\* which path it returned; for a continuation the response that resumed it
\* and whether it ended in displayResult ("success") or displayError.
Event(op, amount, from, to, fetch, exit, response) ==
  [op |-> op, amount |-> amount, from |-> from, to |-> to,
   fetch |-> fetch, exit |-> exit, response |-> response]

\* No attempt has been recorded.
NoHistory == [kind |-> "none"]

Init ==
  /\ amountInput = [value |-> <<>>]
  /\ fromCurrencySelect = [options |-> <<>>, selectedIndex |-> 0]
  /\ toCurrencySelect = [options |-> <<>>, selectedIndex |-> 0]
  /\ convertButton = [disabled |-> FALSE]
  /\ resultMessage = [textContent |-> <<>>, display |-> ""]
  /\ errorMessage = [textContent |-> <<>>, display |-> ""]
  /\ loader = "fetch"
  /\ pending = EmptyBag
  /\ ev = Event("load", NaN, <<>>, <<>>, FALSE, "none", NoResponse)
  /\ hist = NoHistory

\* ------------------------------------------------------------------------
\* displayError and displayResult
\* ------------------------------------------------------------------------

\* displayError without line 22: the result region is left as it is.
displayError_KeepsResult(message, ui) ==
  [resultMessage |-> ui.resultMessage,
   errorMessage |-> [textContent |-> message, display |-> "block"],
   convertButton |-> [disabled |-> FALSE]]

\* displayError without line 23: the button is left as it is.
displayError_KeepsButton(message, ui) ==
  [resultMessage |-> [ui.resultMessage EXCEPT !.display = "none"],
   errorMessage |-> [textContent |-> message, display |-> "block"],
   convertButton |-> ui.convertButton]

displayError(message, ui) ==
  [resultMessage |-> [ui.resultMessage EXCEPT !.display = "none"],
   errorMessage |-> [textContent |-> message, display |-> "block"],
   convertButton |-> [disabled |-> FALSE]]

\* displayResult written with += : the new message is appended to the text
\* the region already holds.
displayResult_Appends(message, ui) ==
  [resultMessage |-> [textContent |-> ui.resultMessage.textContent \o message,
                      display |-> "block"],
   errorMessage |-> [ui.errorMessage EXCEPT !.display = "none"],
   convertButton |-> [disabled |-> FALSE]]

displayResult(message, ui) ==
  [resultMessage |-> [textContent |-> message, display |-> "block"],
   errorMessage |-> [ui.errorMessage EXCEPT !.display = "none"],
   convertButton |-> [disabled |-> FALSE]]

\* ------------------------------------------------------------------------
\* getCurrencies
\* ------------------------------------------------------------------------

\* The status check left out: only a rejection of fetch throws.
ResponseOk_NoStatusCheck(outcome) == outcome # "network"

\* No throw while awaiting a response: fetch did not reject and the
\* response passed the `if (!response.ok) throw` check.
ResponseOk(outcome) == outcome = "ok"

\* The forEach of getCurrencies: one option per code appended to a select.
RECURSIVE Populate(_, _, _)
Populate(select, codes, data) ==
  IF codes = <<>> THEN select
  ELSE LET code == Head(codes)
           name == (CHOOSE e \in {data[i] : i \in 1..Len(data)} : e[1] = code)[2]
       IN  Populate(AppendChild(select, [value |-> code, textContent |-> OptionText(code, name)]),
                    Tail(codes), data)

\* Object.keys(data).sort()
CurrencyCodes(data) == Sort([i \in 1..Len(data) |-> data[i][1]])

\* await fetch(`${API_URL}/currencies`) settles: a response with ok set, a
\* response with another status, or a rejection.
CatalogFetchSettles(outcome) ==
  /\ loader = "fetch"
  /\ IF ResponseOk(outcome)
     THEN /\ loader' = "json"
          /\ ev' = Event("catalogResponse", NaN, <<>>, <<>>, FALSE, "none",
                         Settled(outcome, [kind |-> "none"]))
          /\ UNCHANGED <<resultMessage, errorMessage, convertButton>>
     ELSE /\ loader' = "done"
          /\ SetUI(displayError(CatalogFailedMessage, UI))
          /\ ev' = Event("catalogResponse", NaN, <<>>, <<>>, FALSE, outcome,
                         Settled(outcome, [kind |-> "none"]))
  /\ UNCHANGED <<amountInput, fromCurrencySelect, toCurrencySelect, pending>>

\* await response.json() settles: it rejects, or yields the catalog, which
\* fills both selects and sets the defaults.
CatalogJsonSettles(body) ==
  /\ loader = "json"
  /\ loader' = "done"
  /\ IF body.kind = "invalid"
     THEN /\ SetUI(displayError(CatalogFailedMessage, UI))
          /\ ev' = Event("catalogData", NaN, <<>>, <<>>, FALSE, "invalid",
                         Settled("ok", [kind |-> "invalid"]))
          /\ UNCHANGED <<fromCurrencySelect, toCurrencySelect>>
     ELSE /\ fromCurrencySelect' =
               SetValue(Populate(fromCurrencySelect, CurrencyCodes(body.data), body.data), USD)
          /\ toCurrencySelect' =
               SetValue(Populate(toCurrencySelect, CurrencyCodes(body.data), body.data), EUR)
          /\ ev' = Event("catalogData", NaN, <<>>, <<>>, FALSE, "loaded",
                         Settled("ok", [kind |-> "data"]))
          /\ UNCHANGED <<resultMessage, errorMessage, convertButton>>
  /\ UNCHANGED <<amountInput, pending>>


\* ------------------------------------------------------------------------
\* convertCurrency
\* ------------------------------------------------------------------------

\* The amount check left out.
InvalidAmount_Never(amount) == FALSE

\* The comparison written amount < 0: zero passes.
InvalidAmount_ZeroPasses(amount) ==
  isNaN(amount) \/ (LessOrEqualZero(amount) /\ ~(amount.k = "fin" /\ amount.n = 0))

\* isNaN(amount) || amount <= 0
InvalidAmount(amount) == isNaN(amount) \/ LessOrEqualZero(amount)

\* The short-circuit left out.
SameCurrency_Never(from, to) == FALSE

\* from === to
SameCurrency(from, to) == from = to

\* The rate looked up under toCurrencySelect.value, read again after the
\* await, and not under the constant to.
MissingRate_CurrentTarget(body, to) ==
  body.kind = "norates" \/ ~Truthy(RateOf(body, Value(toCurrencySelect)))

\* Only !data.rates is checked.
MissingRate_RatesOnly(body, to) == body.kind = "norates"

\* !data.rates || !data.rates[to]
MissingRate(body, to) == body.kind = "norates" \/ ~Truthy(RateOf(body, to))

\* Step 1 of convertCurrency: both regions hidden, the button disabled.
ClearMessages(ui) ==
  [resultMessage |-> [ui.resultMessage EXCEPT !.display = "none"],
   errorMessage |-> [ui.errorMessage EXCEPT !.display = "none"],
   convertButton |-> [disabled |-> TRUE]]

\* The finally block written with disabled = true.
Finally_Disables(ui) == [ui EXCEPT !.convertButton = [disabled |-> TRUE]]

\* The finally block of convertCurrency.
Finally(ui) == [ui EXCEPT !.convertButton = [disabled |-> FALSE]]

\* A call suspended at `await fetch(url)`: its url and the constants of its
\* closure that the rest of the function reads.
Suspended(amount, from, to, url) ==
  [amount |-> amount, from |-> from, to |-> to, url |-> url]

\* convertCurrency() from its call to its return or its first await, on the
\* selects as they are when it is called.
convertCurrency(op, fromSelect, toSelect) ==
  LET ui     == ClearMessages(UI)
      amount == parseFloat(amountInput.value)
      from   == Value(fromSelect)
      to     == Value(toSelect)
  IN  IF InvalidAmount(amount)
      THEN /\ SetUI(displayError(ValidationMessage, ui))
           /\ pending' = pending
           /\ ev' = Event(op, amount, from, to, FALSE, "validation", NoResponse)
      ELSE IF SameCurrency(from, to)
      THEN /\ SetUI(displayResult(EqualMessage(amount, from, to), ui))
           /\ pending' = pending
           /\ ev' = Event(op, amount, from, to, FALSE, "same", NoResponse)
      ELSE /\ BagCardinality(pending) < MaxInFlight
           /\ SetUI(ui)
           /\ pending' = pending (+) SetToBag({Suspended(amount, from, to, RateUrl(from, to))})
           /\ ev' = Event(op, amount, from, to, TRUE, "none", NoResponse)

\* A click on the convert button; a disabled button fires no click event.
ClickConvert ==
  /\ ~convertButton.disabled
  /\ convertCurrency("convert", fromCurrencySelect, toCurrencySelect)
  /\ UNCHANGED <<amountInput, fromCurrencySelect, toCurrencySelect, loader>>

\* The swap written without the temporary: the target keeps its value.
SwappedSelects_NoTemp(fromSelect, toSelect) ==
  LET newFrom == SetValue(fromSelect, Value(toSelect))
      newTo   == SetValue(toSelect, Value(newFrom))
  IN  [from |-> newFrom, to |-> newTo]

\* The two selects after the three assignments of swapCurrencies.
SwappedSelects(fromSelect, toSelect) ==
  LET tempValue == Value(fromSelect)
      newFrom   == SetValue(fromSelect, Value(toSelect))
      newTo     == SetValue(toSelect, tempValue)
  IN  [from |-> newFrom, to |-> newTo]

\* swapCurrencies(): a click on the swap button, which is never disabled.
swapCurrencies ==
  LET swapped == SwappedSelects(fromCurrencySelect, toCurrencySelect)
  IN  /\ fromCurrencySelect' = swapped.from
      /\ toCurrencySelect' = swapped.to
      /\ convertCurrency("swap", swapped.from, swapped.to)
      /\ UNCHANGED <<amountInput, loader>>

\* The two awaits of the suspended attempt p settle.  The continuation that runs between
\* them (lines 102-106) writes nothing when response.ok is set, so no other
\* handler can tell the two suspensions apart and they are one step here.
\* outcome is how fetch settles ("ok", "http": a response whose ok is not
\* set, "network": a rejection) and body is what response.json() yields.
\* Every throw runs the catch block; the finally block runs on every path.
RateSettles(p, outcome, body) ==
  /\ BagIn(p, pending)
  /\ pending' = pending (-) SetToBag({p})
  /\ IF ~ResponseOk(outcome)
       THEN /\ SetUI(Finally(displayError(ConversionFailedMessage, UI)))
            /\ ev' = Event("rate", NaN, <<>>, <<>>, FALSE, "failure", Settled(outcome, body))
       ELSE IF body.kind = "invalid"
       THEN /\ SetUI(Finally(displayError(ConversionFailedMessage, UI)))
            /\ ev' = Event("rate", NaN, <<>>, <<>>, FALSE, "failure", Settled(outcome, body))
       ELSE IF MissingRate(body, p.to)
       THEN /\ SetUI(Finally(displayError(ConversionFailedMessage, UI)))
            /\ ev' = Event("rate", NaN, <<>>, <<>>, FALSE, "failure", Settled(outcome, body))
       ELSE IF ~IsWellFormedCurrencyCode(p.to)
       THEN /\ SetUI(Finally(displayError(ConversionFailedMessage, UI)))
            /\ ev' = Event("rate", NaN, <<>>, <<>>, FALSE, "failure", Settled(outcome, body))
       ELSE LET rate            == RateOf(body, p.to)
                convertedAmount == Multiply(p.amount, rate)
                formattedResult == FormatCurrency(convertedAmount, p.to)
            IN  /\ SetUI(Finally(displayResult(
                      ApproximatelyMessage(p.amount, p.from, formattedResult), UI)))
                /\ ev' = Event("rate", NaN, <<>>, <<>>, FALSE, "success", Settled(outcome, body))
  /\ UNCHANGED <<amountInput, fromCurrencySelect, toCurrencySelect, loader>>

\* ------------------------------------------------------------------------
\* The user
\* ------------------------------------------------------------------------

\* The user edits the amount field.
InputAmount(text) ==
  /\ amountInput' = [value |-> text]
  /\ ev' = Event("user", NaN, <<>>, <<>>, FALSE, "none", NoResponse)
  /\ UNCHANGED <<fromCurrencySelect, toCurrencySelect, convertButton,
                 resultMessage, errorMessage, loader, pending>>

\* The user picks option i of the source drop-down.
SelectFrom(i) ==
  /\ i \in 1..Len(fromCurrencySelect.options)
  /\ fromCurrencySelect' = [fromCurrencySelect EXCEPT !.selectedIndex = i]
  /\ ev' = Event("user", NaN, <<>>, <<>>, FALSE, "none", NoResponse)
  /\ UNCHANGED <<amountInput, toCurrencySelect, convertButton,
                 resultMessage, errorMessage, loader, pending>>

\* The user picks option i of the target drop-down.
SelectTo(i) ==
  /\ i \in 1..Len(toCurrencySelect.options)
  /\ toCurrencySelect' = [toCurrencySelect EXCEPT !.selectedIndex = i]
  /\ ev' = Event("user", NaN, <<>>, <<>>, FALSE, "none", NoResponse)
  /\ UNCHANGED <<amountInput, fromCurrencySelect, convertButton,
                 resultMessage, errorMessage, loader, pending>>

\* ------------------------------------------------------------------------
\* Specification
\* ------------------------------------------------------------------------

\* The environment's steps: a response to the catalog request, its body, the
\* user's edits of the form, and a response to a rate request.
CatalogResponse == \E outcome \in {"ok", "http", "network"} : CatalogFetchSettles(outcome)

CatalogData == \E body \in CatalogBodies : CatalogJsonSettles(body)

TypesAmount == \E text \in AmountTexts : InputAmount(text)

PicksFrom == \E i \in 1..Len(fromCurrencySelect.options) : SelectFrom(i)

PicksTo == \E i \in 1..Len(toCurrencySelect.options) : SelectTo(i)

RateResponse ==
  \E p \in BagToSet(pending), body \in RateBodies : RateSettles(p, "ok", body)

RateRequestFails ==
  \E p \in BagToSet(pending), outcome \in {"http", "network"} :
    RateSettles(p, outcome, [kind |-> "none"])

Next ==
  \/ CatalogResponse /\ UNCHANGED hist
  \/ CatalogData /\ UNCHANGED hist
  \/ TypesAmount /\ UNCHANGED hist
  \/ PicksFrom /\ UNCHANGED hist
  \/ PicksTo /\ UNCHANGED hist
  \/ ClickConvert /\ UNCHANGED hist
  \/ swapCurrencies /\ UNCHANGED hist
  \/ RateResponse /\ UNCHANGED hist
  \/ RateRequestFails /\ UNCHANGED hist

Spec == Init /\ [][Next]_vars

\* ------------------------------------------------------------------------
\* Sequential use: no attempt is started while another one is suspended.
\* The convert button is disabled then, so this only keeps the user from
\* the swap button.  hist is the attempt that completed last: what it read,
\* the response it got (none on a synchronous exit), the message it left
\* on display, and whether the attempt before it had the same inputs.
\* ------------------------------------------------------------------------

\* The message that two regions have on display.
Message(result, error) ==
  IF result.display = "block"
  THEN [region |-> "result", text |-> result.textContent]
  ELSE IF error.display = "block"
  THEN [region |-> "error", text |-> error.textContent]
  ELSE [region |-> "none", text |-> <<>>]

\* The message on display after the step.
Displayed == Message(resultMessage', errorMessage')

Completed(amount, from, to, response) ==
  [kind |-> "attempt", amount |-> amount, from |-> from, to |-> to,
   response |-> response, out |-> Displayed,
   repeated |-> /\ hist.kind = "attempt"
                /\ hist.amount = amount /\ hist.from = from /\ hist.to = to
                /\ hist.response = response]

\* hist after a step: the attempt the step has completed, if it has
\* completed one.
RecordsCompleted ==
  IF ev'.op \in {"convert", "swap"} /\ ~ev'.fetch
  THEN hist' = Completed(ev'.amount, ev'.from, ev'.to, NoResponse)
  ELSE IF ev'.op = "rate"
  THEN LET p == CHOOSE q \in BagToSet(pending) : pending' = pending (-) SetToBag({q})
       IN  hist' = Completed(p.amount, p.from, p.to, ev'.response)
  ELSE hist' = hist

SequentialNext ==
  \/ CatalogResponse /\ RecordsCompleted
  \/ CatalogData /\ RecordsCompleted
  \/ TypesAmount /\ RecordsCompleted
  \/ PicksFrom /\ RecordsCompleted
  \/ PicksTo /\ RecordsCompleted
  \/ ClickConvert /\ RecordsCompleted
  \/ pending = EmptyBag /\ swapCurrencies /\ RecordsCompleted
  \/ RateResponse /\ RecordsCompleted
  \/ RateRequestFails /\ RecordsCompleted

SequentialSpec == Init /\ [][SequentialNext]_vars

\* ------------------------------------------------------------------------
\* Responses that arrive.  Suspended attempts with equal constants are equal
\* in pending, so hist follows one attempt from its request to its
\* continuation: any attempt that issues a request may become the followed
\* one, and when an equal attempt is suspended too, either of the two may
\* be the one whose response arrives.  The request of the followed attempt
\* is eventually answered (by any response, or by a failure).
\* ------------------------------------------------------------------------

Followed(p) == [kind |-> "followed", p |-> p]

Ended == [kind |-> "ended"]

FollowsAttempt ==
  IF ev'.op \in {"convert", "swap"} /\ ev'.fetch /\ hist.kind # "followed"
  THEN \E p \in BagToSet(pending') :
         /\ pending' = pending (+) SetToBag({p})
         /\ hist' \in {hist, Followed(p)}
  ELSE IF /\ ev'.op = "rate" /\ hist.kind = "followed"
          /\ pending' = pending (-) SetToBag({hist.p})
  THEN IF CopiesIn(hist.p, pending) = 1
       THEN hist' = Ended
       ELSE hist' \in {hist, Ended}
  ELSE hist' = hist

\* The amounts and catalogs of this specification: a number and a text
\* that is none; the catalog with both defaults or a body that is no JSON.
BasicAmountTexts == {text \in AmountTexts : text \in {<<"1", "0", "0">>, <<"a", "b", "c">>}}

BasicCatalogBodies == {body \in CatalogBodies : body.kind = "data" => Len(body.data) = 2}

FairNext ==
  \/ CatalogResponse /\ FollowsAttempt
  \/ (\E body \in BasicCatalogBodies : CatalogJsonSettles(body)) /\ FollowsAttempt
  \/ (\E text \in BasicAmountTexts : InputAmount(text)) /\ FollowsAttempt
  \/ PicksFrom /\ FollowsAttempt
  \/ PicksTo /\ FollowsAttempt
  \/ ClickConvert /\ FollowsAttempt
  \/ swapCurrencies /\ FollowsAttempt
  \/ RateResponse /\ FollowsAttempt
  \/ RateRequestFails /\ FollowsAttempt

\* The request of the followed attempt settles and its continuation runs.
FollowedSettles ==
  /\ hist.kind = "followed"
  /\ \/ \E body \in RateBodies : RateSettles(hist.p, "ok", body)
     \/ \E outcome \in {"http", "network"} : RateSettles(hist.p, outcome, [kind |-> "none"])
  /\ FollowsAttempt
  /\ hist' = Ended

FairSpec == Init /\ [][FairNext]_vars /\ WF_vars(FollowedSettles)

\* ------------------------------------------------------------------------
\* The attempt started last.  hist is the attempt that was started most
\* recently: the constants of its closure, whether it has completed, and
\* the message it left on display when it did.  When an older attempt with
\* equal constants is suspended too, either of the two may be the one whose
\* response arrives.
\* ------------------------------------------------------------------------

Latest(p, done, out) == [kind |-> "latest", p |-> p, done |-> done, out |-> out]

RecordsLatest ==
  IF ev'.op \in {"convert", "swap"}
  THEN IF ev'.fetch
       THEN \E p \in BagToSet(pending') :
              /\ pending' = pending (+) SetToBag({p})
              /\ hist' = Latest(p, FALSE, [region |-> "none", text |-> <<>>])
       ELSE hist' = Latest(Suspended(ev'.amount, ev'.from, ev'.to, <<>>), TRUE, Displayed)
  ELSE IF /\ ev'.op = "rate" /\ hist.kind = "latest" /\ ~hist.done
          /\ pending' = pending (-) SetToBag({hist.p})
  THEN IF CopiesIn(hist.p, pending) = 1
       THEN hist' = Latest(hist.p, TRUE, Displayed)
       ELSE hist' \in {hist, Latest(hist.p, TRUE, Displayed)}
  ELSE hist' = hist

LatestNext ==
  \/ CatalogResponse /\ RecordsLatest
  \/ (\E body \in BasicCatalogBodies : CatalogJsonSettles(body)) /\ RecordsLatest
  \/ (\E text \in BasicAmountTexts : InputAmount(text)) /\ RecordsLatest
  \/ PicksFrom /\ RecordsLatest
  \/ PicksTo /\ RecordsLatest
  \/ ClickConvert /\ RecordsLatest
  \/ swapCurrencies /\ RecordsLatest
  \/ RateResponse /\ RecordsLatest
  \/ RateRequestFails /\ RecordsLatest

LatestSpec == Init /\ [][LatestNext]_vars




\* ------------------------------------------------------------------------
\* Properties
\* ------------------------------------------------------------------------

\* The step ran convertCurrency from its start (a click on either button).
AttemptStarted == ev'.op \in {"convert", "swap"}

Shown(message) == [textContent |-> message, display |-> "block"]

OneHundred == <<"1", "0", "0">>

\* C1: the result region and the error region are never both displayed;
\* whichever is displayed, the other has been hidden by the same call.
C1_NeverBothDisplayed ==
  /\ ~(resultMessage.display = "block" /\ errorMessage.display = "block")
  /\ resultMessage.display = "block" => errorMessage.display = "none"
  /\ errorMessage.display = "block" => resultMessage.display = "none"

\* A result is on display after an error had been displayed.
C1_Witness ==
  /\ resultMessage.display = "block"
  /\ errorMessage.textContent = ValidationMessage
  /\ errorMessage.display = "none"

\* C2: a convert attempt whose amount parses to NaN or to a number <= 0
\* ends by displaying the validation error and issues no rate request,
\* whatever the selections are.
C2_InvalidAmountRejected ==
  [][ (AttemptStarted /\ LET amount == parseFloat(amountInput'.value)
                         IN  isNaN(amount) \/ LessOrEqualZero(amount))
      => /\ errorMessage' = Shown(ValidationMessage)
         /\ resultMessage'.display = "none"
         /\ pending' = pending
         /\ ~ev'.fetch ]_vars

\* Scenario 2: the amount -5 has just been rejected.
C2_Witness ==
  /\ ev.op = "convert"
  /\ amountInput.value = <<"-", "5">>
  /\ ev.amount = Finite(TRUE, 5, 0)
  /\ errorMessage = Shown(ValidationMessage)
  /\ pending = EmptyBag

\* C3: an attempt gets past validation only if its amount is a finite
\* number greater than zero.
C3_OnlyFinitePositivePasses ==
  (ev.op \in {"convert", "swap"} /\ ev.exit # "validation")
    => (IsFinite(ev.amount) /\ GreaterThanZero(ev.amount))

\* C4: a convert attempt with a valid amount and equal selections displays
\* the message that the amount equals itself and issues no rate request.
C4_SameCurrencyShortCircuit ==
  [][ (AttemptStarted
         /\ LET amount == parseFloat(amountInput'.value)
            IN  ~isNaN(amount) /\ GreaterThanZero(amount)
         /\ Value(fromCurrencySelect') = Value(toCurrencySelect'))
      => /\ resultMessage' =
              Shown(EqualMessage(parseFloat(amountInput'.value),
                                 Value(fromCurrencySelect'), Value(toCurrencySelect')))
         /\ (amountInput'.value = OneHundred /\ Value(fromCurrencySelect') = USD
               => resultMessage'.textContent =
                    <<"1", "0", "0", ".", "0", "0", " ", "U", "S", "D", " is equal to ",
                      "1", "0", "0", ".", "0", "0", " ", "U", "S", "D", ".">>)
         /\ errorMessage'.display = "none"
         /\ pending' = pending
         /\ ~ev'.fetch ]_vars

\* Scenario 1: 100 USD to USD has just been answered without a request.
C4_Witness ==
  /\ ev.op = "convert"
  /\ ev.exit = "same"
  /\ ev.amount = Finite(FALSE, 100, 0)
  /\ ev.from = USD /\ ev.to = USD
  /\ resultMessage.display = "block"

\* An attempt ends in this step: it returns before its request, or its
\* request settles.
AttemptEnded ==
  \/ AttemptStarted /\ pending' = pending
  \/ ev'.op = "rate"

\* C5: every exit path of a convert attempt leaves the convert button
\* enabled.
C5_ButtonEnabledOnExit ==
  [][ AttemptEnded => ~convertButton'.disabled ]_vars

\* An attempt has just ended in the catch block after a network failure,
\* no other attempt is suspended, and the button is enabled.
C5_Witness ==
  /\ ev.op = "rate"
  /\ ev.exit = "failure"
  /\ ev.response.outcome = "network"
  /\ pending = EmptyBag
  /\ ~convertButton.disabled

\* C6: at most one conversion attempt is suspended on its rate request.
C6_AtMostOneInFlight == BagCardinality(pending) <= 1

\* C7: while any rate request is in flight the convert button is disabled.
C7_DisabledWhileInFlight == pending # EmptyBag => convertButton.disabled

\* C8: a swap exchanges the two selections and the conversion it runs
\* reads the exchanged pair: its source is the old target and its target
\* the old source, in what it reads and in the request it issues.
C8_SwapThenConvertPostSwap ==
  [][ ev'.op = "swap"
      => /\ Value(fromCurrencySelect') = Value(toCurrencySelect)
         /\ Value(toCurrencySelect') = Value(fromCurrencySelect)
         /\ ev'.from = Value(toCurrencySelect)
         /\ ev'.to = Value(fromCurrencySelect)
         /\ ev'.amount = parseFloat(amountInput.value)
         /\ ev'.fetch =>
              pending' = pending (+) SetToBag({
                [amount |-> parseFloat(amountInput.value),
                 from |-> Value(toCurrencySelect),
                 to |-> Value(fromCurrencySelect),
                 url |-> <<"https://api.frankfurter.dev", "/latest?from=">>
                           \o Value(toCurrencySelect) \o <<"&to=">>
                           \o Value(fromCurrencySelect)]}) ]_vars

\* A swap of the default pair has issued the request for EUR to USD.
C8_Witness ==
  /\ ev.op = "swap"
  /\ ev.fetch
  /\ ev.from = EUR /\ ev.to = USD
  /\ Value(fromCurrencySelect) = EUR /\ Value(toCurrencySelect) = USD

\* The response is one of the three failures for an attempt whose target
\* is `to`: a status that is not a success, a failure of the network, or a
\* body without a rate for `to`.
RateFetchFailed(response, to) ==
  \/ response.outcome \in {"http", "network"}
  \/ /\ response.outcome = "ok"
     /\ \/ response.body.kind = "norates"
        \/ /\ response.body.kind = "rates"
           /\ (response.body.rate.k = "undefined" \/ response.body.key # to)

\* C9: when the rate request of an attempt fails in one of the three ways,
\* the attempt displays the conversion-failed error, the same for all
\* three, and writes no result.
C9_RateFailureMessage ==
  [][ \A p \in BagToSet(pending) :
        (/\ ev'.op = "rate"
         /\ pending' = pending (-) SetToBag({p})
         /\ RateFetchFailed(ev'.response, p.to))
        => /\ errorMessage' = Shown(ConversionFailedMessage)
           /\ resultMessage'.display = "none"
           /\ resultMessage'.textContent = resultMessage.textContent ]_vars

\* Scenario 5: a response whose rates hold no entry at all has just been
\* answered with the conversion-failed error.
C9_Witness ==
  /\ ev.op = "rate"
  /\ ev.response.outcome = "ok"
  /\ ev.response.body.kind = "rates"
  /\ ev.response.body.rate.k = "undefined"
  /\ errorMessage = Shown(ConversionFailedMessage)
  /\ resultMessage.display = "none"

\* C10: when the catalog request gets a status that is not a success or
\* fails at the network level, getCurrencies displays the catalog error,
\* adds no option and leaves both selections as they are.
C10_CatalogFailure ==
  [][ (ev'.op = "catalogResponse" /\ ev'.response.outcome \in {"http", "network"})
      => /\ errorMessage' = Shown(CatalogFailedMessage)
         /\ resultMessage'.display = "none"
         /\ fromCurrencySelect' = fromCurrencySelect
         /\ toCurrencySelect' = toCurrencySelect
         /\ fromCurrencySelect'.options = <<>>
         /\ toCurrencySelect'.options = <<>>
         /\ loader' = "done" ]_vars

\* Scenario 4: the catalog request has just failed with an HTTP status.
C10_Witness ==
  /\ ev.op = "catalogResponse"
  /\ ev.response.outcome = "http"
  /\ errorMessage = Shown(CatalogFailedMessage)
  /\ fromCurrencySelect.options = <<>>

\* The catalog load has ended in its catch block: the loader has finished
\* and no option was ever added to the drop-downs.
CatalogLoadFailed ==
  /\ loader = "done"
  /\ fromCurrencySelect.options = <<>>
  /\ toCurrencySelect.options = <<>>

\* C11: after a failed catalog load no convert or swap action ever produces
\* a Success result: the result region is never on display again.  (The
\* failure itself hides the result region, so a result on display after it
\* was produced by a later attempt.)
C11_NoSuccessAfterFailedLoad ==
  CatalogLoadFailed => resultMessage.display # "block"

\* The codes the catalog service has returned so far: the values of the
\* options the loader has added (none before the catalog has loaded).
CatalogCodes ==
  {fromCurrencySelect.options[i].value : i \in 1..Len(fromCurrencySelect.options)}

\* C12: every source and target code that a convert attempt uses, in a rate
\* request or in a Success message, belongs to the codes returned by the
\* catalog service, also for attempts started before the catalog has loaded
\* and for catalogs without USD or EUR.  (An attempt that passes the amount
\* check uses its codes: it displays them or requests a rate for them.)
C12_CodesBelongToCatalog ==
  (ev.op \in {"convert", "swap"} /\ ev.exit # "validation")
    => (ev.from \in CatalogCodes /\ ev.to \in CatalogCodes)

\* The loader has just populated the drop-downs and set the defaults.
CatalogLoaded == ev'.op = "catalogData" /\ ev'.exit = "loaded"

\* The codes of the options a drop-down holds.
CodesOf(select) == {select.options[i].value : i \in 1..Len(select.options)}

\* C13 as stated: after a successful catalog load the source is USD and the
\* target EUR when the catalog has those codes, and a selection whose default
\* is absent falls back to the first catalog entry.
C13_DefaultsOrFirstEntry ==
  [][CatalogLoaded =>
       /\ Value(fromCurrencySelect') =
            (IF USD \in CodesOf(fromCurrencySelect') THEN USD
             ELSE fromCurrencySelect'.options[1].value)
       /\ Value(toCurrencySelect') =
            (IF EUR \in CodesOf(toCurrencySelect') THEN EUR
             ELSE toCurrencySelect'.options[1].value)]_vars

\* C13 amended: after a successful catalog load the source is USD and the
\* target EUR when the catalog has those codes, and a selection whose default
\* is absent is left with no option selected (its value is the empty
\* string).
C13_DefaultsOrNoSelection ==
  [][CatalogLoaded =>
       /\ Value(fromCurrencySelect') =
            (IF USD \in CodesOf(fromCurrencySelect') THEN USD ELSE <<>>)
       /\ Value(toCurrencySelect') =
            (IF EUR \in CodesOf(toCurrencySelect') THEN EUR ELSE <<>>)
       /\ USD \notin CodesOf(fromCurrencySelect') => fromCurrencySelect'.selectedIndex = 0
       /\ EUR \notin CodesOf(toCurrencySelect') => toCurrencySelect'.selectedIndex = 0]_vars

\* A catalog without USD has loaded: the source has no selection, the
\* target is EUR.
C13_Witness ==
  /\ ev.op = "catalogData"
  /\ ev.exit = "loaded"
  /\ CodesOf(fromCurrencySelect) = {EUR}
  /\ fromCurrencySelect.selectedIndex = 0
  /\ Value(toCurrencySelect) = EUR

\* A step of the conversion workflow: a convert or swap click, or the
\* continuation of an attempt after its rate request has settled.
WorkflowStep == ev'.op \in {"convert", "swap", "rate"}

\* The options of the two drop-downs are left as they are.
SameOptions ==
  /\ fromCurrencySelect'.options = fromCurrencySelect.options
  /\ toCurrencySelect'.options = toCurrencySelect.options

\* C14 as stated: once the loader has finished, no convert or swap action
\* changes the catalog options or the source and target selections.
C14_SelectionsReadOnly ==
  [][(loader = "done" /\ WorkflowStep)
       => (SameOptions /\ UNCHANGED <<fromCurrencySelect, toCurrencySelect>>)]_vars

\* C14 amended: once the loader has finished, no step of the workflow
\* changes the catalog options; a convert attempt, from its click to its
\* continuation, changes no selection; a swap exchanges the values of the
\* source and target selections and writes nothing else to them.
C14_OnlySwapWritesSelections ==
  [][(loader = "done" /\ WorkflowStep)
       => /\ SameOptions
          /\ ev'.op # "swap" => UNCHANGED <<fromCurrencySelect, toCurrencySelect>>
          /\ ev'.op = "swap" => /\ Value(fromCurrencySelect') = Value(toCurrencySelect)
                                /\ Value(toCurrencySelect') = Value(fromCurrencySelect)]_vars

\* After the catalog has loaded, a swap has exchanged USD and EUR and the
\* options are the catalog's.
C14_Witness ==
  /\ loader = "done"
  /\ ev.op = "swap"
  /\ Value(fromCurrencySelect) = EUR
  /\ Value(toCurrencySelect) = USD
  /\ CodesOf(fromCurrencySelect) = {USD, EUR}
  /\ CodesOf(toCurrencySelect) = {USD, EUR}

\* C15: under sequential use, an attempt with the same amount, the same
\* selections and the same rate response as the attempt completed before it
\* leaves the same message on display (same region, same text), whatever
\* was on display before either of them.
C15_RepeatedAttemptSameMessage ==
  [][(hist'.kind = "attempt" /\ hist'.repeated) => hist'.out = hist.out]_vars

\* A conversion that fetched a rate and displayed a result has been
\* repeated with the same inputs and the same response.
C15_Witness ==
  /\ hist.kind = "attempt"
  /\ hist.repeated
  /\ hist.response.outcome = "ok"
  /\ hist.out.region = "result"
  /\ hist.from # hist.to

\* The step is the continuation of the suspended attempt p.
Continues(p) == ev'.op = "rate" /\ pending' = pending (-) SetToBag({p})

\* The response of the step is a successful one whose rates mapping holds a
\* positive rate for the code to.
PositiveRateFor(to) ==
  /\ ev'.response.outcome = "ok"
  /\ ev'.response.body.kind = "rates"
  /\ ev'.response.body.key = to
  /\ ev'.response.body.rate.k = "fin"
  /\ GreaterThanZero(ev'.response.body.rate)

\* C16: an attempt with a valid amount and a source different from its
\* target, answered by a successful response holding a positive rate r for
\* the target, displays the Success message whose converted value is
\* amount * r, the unrounded amount multiplied, in the target currency.
C16_ConvertedValueDisplayed ==
  [][\A p \in BagToSet(pending) :
       (/\ Continues(p)
        /\ IsFinite(p.amount) /\ GreaterThanZero(p.amount)
        /\ p.from # p.to
        /\ PositiveRateFor(p.to))
         => /\ resultMessage' =
                 Shown(toFixed(p.amount, 2) \o <<" ">> \o p.from \o <<" is approximately ">>
                         \o FormatCurrency(Multiply(p.amount, ev'.response.body.rate), p.to))
            /\ errorMessage'.display = "none"]_vars

\* The number of rate requests in flight.
InFlight(bag) == BagCardinality(bag)

\* C17: every convert attempt issues at most one rate request: none when
\* the amount is not a number or not positive or when source and target are
\* equal, exactly one (for the pair it read) when the amount is valid and
\* they differ.  No failure is retried: the continuation of an attempt
\* takes its own request out of flight and issues no other, and no other
\* step issues a request.
C17_OneRequestPerAttempt ==
  [][LET amount == parseFloat(amountInput'.value)
         from   == Value(fromCurrencySelect')
         to     == Value(toCurrencySelect')
     IN  /\ AttemptStarted =>
               /\ InFlight(pending') <= InFlight(pending) + 1
               /\ (isNaN(amount) \/ LessOrEqualZero(amount) \/ from = to)
                     => pending' = pending
               /\ (IsFinite(amount) /\ GreaterThanZero(amount) /\ from # to)
                     => \E p \in BagToSet(pending') :
                          /\ pending' = pending (+) SetToBag({p})
                          /\ p.url = RateUrl(from, to)
         /\ ev'.op = "rate" => InFlight(pending') = InFlight(pending) - 1
         /\ ~(AttemptStarted \/ ev'.op = "rate") => pending' = pending]_vars

\* A request that failed has left nothing in flight: the attempt for 100
\* USD to EUR got a response that is not a success and was not retried.
C17_Witness ==
  /\ ev.op = "rate"
  /\ ev.response.outcome = "http"
  /\ ev.exit = "failure"
  /\ pending = EmptyBag
  /\ amountInput.value = OneHundred
  /\ Value(fromCurrencySelect) = USD /\ Value(toCurrencySelect) = EUR

\* Exactly one of the two regions is on display.
OneMessage(result, error) ==
  (result.display = "block") # (error.display = "block")

\* A step keeps every attempt on its path.  An attempt that issues no
\* request ends in the step that started it, with one message on display
\* and the button enabled; the followed attempt stays suspended until its
\* own continuation, the only step that ends it, leaves a Success or a
\* Failure on display and the button enabled.
OnPath ==
  /\ (AttemptStarted /\ ~ev'.fetch) =>
        (OneMessage(resultMessage', errorMessage') /\ ~convertButton'.disabled)
  /\ (hist.kind = "followed" /\ hist' # hist) =>
        (/\ hist' = Ended
         /\ ev'.op = "rate"
         /\ ev'.exit \in {"success", "failure"}
         /\ OneMessage(resultMessage', errorMessage')
         /\ ~convertButton'.disabled)
  /\ (hist.kind = "followed" /\ hist' = hist) => BagIn(hist.p, pending')

\* C18: when every issued request is eventually answered, every convert
\* attempt ends with a Success or a Failure on display and the button
\* enabled, by the steps Idle, Validating, then ShortCircuitSuccess or
\* Fetching, then Success or Failure, then Idle and no others, and no
\* attempt stays in Fetching for ever.
C18_EveryAttemptEnds ==
  /\ [][OnPath]_vars
  /\ (hist.kind = "followed") ~> (hist = Ended)

\* The followed attempt has ended with a Success on display while another
\* attempt is still suspended.
C18_Witness ==
  /\ hist = Ended
  /\ ev.op = "rate"
  /\ ev.exit = "success"
  /\ resultMessage.display = "block"
  /\ pending # EmptyBag

\* C19: once every started attempt has completed, the message on display
\* is the outcome of the attempt that was started most recently, in
\* whatever order the responses of overlapping attempts arrive.  (Looked at
\* after a step of the workflow, so that the message of the catalog loader
\* does not count.)
C19_LatestAttemptOnDisplay ==
  (/\ hist.kind = "latest" /\ hist.done
   /\ pending = EmptyBag
   /\ ev.op \in {"convert", "swap", "rate"})
    => Message(resultMessage, errorMessage) = hist.out

\* C20: the constants of an attempt are the amount, source and target read
\* when it started, and its request is for that pair; the Success message
\* its continuation displays names that amount, source and target, for the
\* rate the response holds under that target, whatever the selections are
\* by then.
C20_AttemptKeepsItsPair ==
  [][/\ AttemptStarted =>
          \A p \in BagToSet(pending') :
            pending' = pending (+) SetToBag({p}) =>
              /\ p.amount = parseFloat(amountInput'.value)
              /\ p.from = Value(fromCurrencySelect')
              /\ p.to = Value(toCurrencySelect')
              /\ p.url = <<"https://api.frankfurter.dev", "/latest?from=">> \o p.from
                            \o <<"&to=">> \o p.to
     /\ \A p \in BagToSet(pending) :
          (Continues(p) /\ resultMessage'.display = "block") =>
              /\ ev'.response.body.kind = "rates"
              /\ ev'.response.body.key = p.to
              /\ resultMessage'.textContent =
                   toFixed(p.amount, 2) \o <<" ">> \o p.from \o <<" is approximately ">>
                     \o FormatCurrency(Multiply(p.amount, ev'.response.body.rate), p.to)]_vars

\* The attempt for 100 USD to EUR has displayed its Success after a swap
\* made EUR the source and USD the target.
C20_Witness ==
  /\ ev.op = "rate"
  /\ resultMessage =
       Shown(<<"1", "0", "0", ".", "0", "0", " ", "U", "S", "D", " is approximately ",
               "E", "U", "R", " ", "9", "0", ".", "0", "0">>)
  /\ Value(fromCurrencySelect) = EUR
  /\ Value(toCurrencySelect) = USD

====
